---- MODULE Spec2Model ----
(***************************************************************************)
(* Age attestations of zkp.py: SecureAgeZKProof issues a signed claim      *)
(* (generate_secure_age_proof) and checks it (verify_proof).               *)
(*                                                                         *)
(* Time is counted in minutes.  A datetime is the number of minutes since  *)
(* midnight of the day the run starts; a date is <<year, month, day>>.     *)
(* An ISO-8601 string without offset is <<"iso", t>>, one with a UTC       *)
(* offset is <<"aware", t>>, any other text is <<"bad", 0>>.               *)
(* HMAC-SHA256 is ideal: the tag of data d under key k is <<k, d>>; a      *)
(* string with a first component below zero stands for text with           *)
(* non-ASCII characters.                                                   *)
(***************************************************************************)
EXTENDS Integers, Sequences, FiniteSets, TLC

VARIABLES
    now,                \* datetime.now(), in minutes
    today,              \* date.today()
    secret_key,         \* self.secret_key of the running instance
    min_age,            \* self.min_age
    proof_expiry,       \* self.proof_expiry_hours, in minutes
    proof,              \* the proof_data dict the caller holds
    edits,              \* how many times the caller changed proof since it was issued
    issued,             \* history: every claim generate_secure_age_proof returned
    verdicts,           \* history: results of verify_proof on proof since the caller last touched it
    last                \* history: the last call, its inputs and what it returned

vars == <<now, today, secret_key, min_age, proof_expiry, proof, edits, issued, verdicts, last>>

-----------------------------------------------------------------------------
(* Bounds of the model *)

MaxMinute == 1          \* minutes the clock may advance past midnight
MaxDays == 1            \* days the clock may advance
MaxIssued == 1          \* claims issued in one run
MaxEdits == 1           \* caller's changes to one claim

(* Program constants *)

MIN_AGE == 18
PROOF_EXPIRY_MINUTES_PRODUCTION == 1440
PROOF_EXPIRY_MINUTES_TEST == 1
RANDINT_LOW == 10000
RANDINT_HIGH == 99999

MinutesPerDay == 24 * 60

(* Config.set_test_mode / set_production_mode: PROOF_EXPIRY_HOURS is 1/60  *)
(* or 24, and timedelta(hours=h) is h * 60 minutes.                        *)
ExpiryMinutes(test_mode) ==
    IF test_mode THEN PROOF_EXPIRY_MINUTES_TEST ELSE PROOF_EXPIRY_MINUTES_PRODUCTION

-----------------------------------------------------------------------------
(* The calendar of datetime.date *)

IsLeap(y) == (y % 4 = 0 /\ y % 100 # 0) \/ y % 400 = 0

DaysInMonth(y, m) ==
    IF m = 2 THEN (IF IsLeap(y) THEN 29 ELSE 28)
    ELSE IF m \in {4, 6, 9, 11} THEN 30 ELSE 31

IsDate(d) == d[2] \in 1..12 /\ d[3] \in 1..DaysInMonth(d[1], d[2])

NextDay(d) ==
    IF d[3] < DaysInMonth(d[1], d[2]) THEN <<d[1], d[2], d[3] + 1>>
    ELSE IF d[2] < 12 THEN <<d[1], d[2] + 1, 1>>
    ELSE <<d[1] + 1, 1, 1>>

(* datetime.strptime(s, "%Y-%m-%d"): the text is <<y, m, d>>; it parses    *)
(* when the month and the day exist.                                       *)
StrptimeOk(s) == IsDate(s)

(* (a, b) < (c, d) on Python tuples *)
TupleLess(a, b, c, d) == a < c \/ (a = c /\ b < d)

Bool2Int(b) == IF b THEN 1 ELSE 0

(* the year difference alone, without the birthday correction *)
calculate_age_by_year(birth_date, td) == td[1] - birth_date[1]

calculate_age(birth_date, td) ==
    td[1] - birth_date[1] - Bool2Int(TupleLess(td[2], td[3], birth_date[2], birth_date[3]))

-----------------------------------------------------------------------------
(* Encodings *)

IsoFormat(t) == <<"iso", t>>
BadIso == <<"bad", 0>>
AwareIso(t) == <<"aware", t>>

(* datetime.fromisoformat(s) returns (or raises ValueError) *)
FromIsoOk(s) == s[1] # "bad"
FromIso(s) == s[2]

(* datetime.now() > d is defined for a d without offset (or raises         *)
(* TypeError)                                                              *)
IsNaive(s) == s[1] = "iso"

Fields == {"alias", "user_id", "age_verified", "min_age", "timestamp", "expires_at", "signature"}

(* sort_keys=True: the keys in lexicographic order *)
SortedKeys == <<"age_verified", "alias", "expires_at", "min_age", "signature", "timestamp", "user_id">>

(* the signed text without the age_verified pair *)
JsonDumpsWithoutFlag(d) ==
    LET keys == SelectSeq(SortedKeys, LAMBDA k : k \in DOMAIN d /\ k # "age_verified")
    IN [i \in 1..Len(keys) |-> <<keys[i], d[keys[i]]>>]

(* json.dumps(d, sort_keys=True): the (key, value) pairs of d in key order *)
JsonDumps(d) ==
    LET F[i \in 0..Len(SortedKeys)] ==
            IF i = 0 THEN <<>>
            ELSE IF SortedKeys[i] \in DOMAIN d
                 THEN Append(F[i - 1], <<SortedKeys[i], d[SortedKeys[i]]>>)
                 ELSE F[i - 1]
    IN F[Len(SortedKeys)]

(* a tag that does not depend on the key *)
_hmac_sign_keyless(key, data) == <<1, data>>

_hmac_sign(key, data) == <<key, data>>

(* hmac.compare_digest(a, b) accepts ASCII strings (or raises TypeError) *)
CompareDigestOk(a) == a[1] >= 0

compare_digest(a, b) == a = b

Pop(d, k) == [f \in DOMAIN d \ {k} |-> d[f]]

Put(d, k, v) == [f \in DOMAIN d \cup {k} |-> IF f = k THEN v ELSE d[f]]

EmptyDict == [f \in {} |-> 0]

-----------------------------------------------------------------------------
(* Inputs *)

StartDates == {<<2018, 2, 28>>}

(* birth_date_str: two dates either side of a leap day, and one day that   *)
(* does not exist                                                          *)
BirthDateStrs == {<<2000, 2, 29>>, <<2001, 2, 29>>}

UserIds == {"", "user001"}

(* os.urandom(32): the keys the service starts draw, in the order drawn;   *)
(* no key is drawn twice                                                   *)
Keys == {1, 2}

FirstKey == CHOOSE k \in Keys : \A j \in Keys : k <= j

(* _generate_alias: f"{random.randint(10000, 99999)}", the two ends; the   *)
(* text is written as the number it spells                                 *)
Aliases == {RANDINT_LOW, RANDINT_HIGH}

(* time that passes between the two datetime.now() of one call *)
Elapsed == {0, 1}

GarbageSignature == <<0, <<>>>>

NonAsciiSignature == <<-1, <<>>>>

(* a time no run of the model reaches *)
FarFuture == (MaxDays + 2) * MinutesPerDay

-----------------------------------------------------------------------------
(* generate_secure_age_proof(birth_date_str, user_id), with the alias      *)
(* drawn, the date and the two clock readings: what is raised or returned. *)
generate_secure_age_proof(birth_date_str, user_id, alias, key, minage, ttl, td, t1, t2) ==
    IF ~StrptimeOk(birth_date_str)
    THEN [raised |-> TRUE, claim |-> EmptyDict, age |-> 0]
    ELSE LET age == calculate_age(birth_date_str, td)
             proof_data == [alias |-> alias,
                            user_id |-> user_id,
                            age_verified |-> (age >= minage),
                            min_age |-> minage,
                            timestamp |-> IsoFormat(t1),
                            expires_at |-> IsoFormat(t2 + ttl)]
             signature == _hmac_sign(key, JsonDumps(proof_data))
         IN [raised |-> FALSE, claim |-> Put(proof_data, "signature", signature), age |-> age]

(* expired already at the minute of expires_at *)
ExpiredAtDeadline(t, expires_at) == t >= expires_at

Expired(t, expires_at) == t > expires_at

(* verify_proof with the signature checked before the expiry *)
verify_proof_signature_first(proof_data, key, t) ==
    IF "signature" \notin DOMAIN proof_data
    THEN [valid |-> FALSE, message |-> "Verification failed: 'signature'", proof |-> proof_data]
    ELSE LET signature == proof_data["signature"]
             popped == Pop(proof_data, "signature")
             expected_signature == _hmac_sign(key, JsonDumps(popped))
         IN IF ~CompareDigestOk(signature)
            THEN [valid |-> FALSE, message |-> "Verification failed: comparing strings with non-ASCII characters is not supported", proof |-> popped]
            ELSE IF ~compare_digest(signature, expected_signature)
            THEN [valid |-> FALSE, message |-> "Invalid signature", proof |-> popped]
            ELSE IF "expires_at" \notin DOMAIN popped
            THEN [valid |-> FALSE, message |-> "Verification failed: 'expires_at'", proof |-> popped]
            ELSE IF ~FromIsoOk(popped["expires_at"])
            THEN [valid |-> FALSE, message |-> "Verification failed: Invalid isoformat string", proof |-> popped]
            ELSE IF ~IsNaive(popped["expires_at"])
            THEN [valid |-> FALSE, message |-> "Verification failed: can't compare offset-naive and offset-aware datetimes", proof |-> popped]
            ELSE IF Expired(t, FromIso(popped["expires_at"]))
            THEN [valid |-> FALSE, message |-> "Proof expired", proof |-> popped]
            ELSE IF "age_verified" \notin DOMAIN popped
            THEN [valid |-> FALSE, message |-> "Verification failed: 'age_verified'", proof |-> popped]
            ELSE IF ~popped["age_verified"]
            THEN [valid |-> FALSE, message |-> "Age requirement not met", proof |-> popped]
            ELSE [valid |-> TRUE, message |-> "Proof verified successfully", proof |-> popped]

(* verify_proof(proof_data) at clock reading t: the pair returned and the  *)
(* dict as the call leaves it.                                             *)
verify_proof(proof_data, key, t) ==
    IF "expires_at" \notin DOMAIN proof_data
    THEN [valid |-> FALSE, message |-> "Verification failed: 'expires_at'", proof |-> proof_data]
    ELSE IF ~FromIsoOk(proof_data["expires_at"])
    THEN [valid |-> FALSE, message |-> "Verification failed: Invalid isoformat string", proof |-> proof_data]
    ELSE IF ~IsNaive(proof_data["expires_at"])
    THEN [valid |-> FALSE, message |-> "Verification failed: can't compare offset-naive and offset-aware datetimes", proof |-> proof_data]
    ELSE IF Expired(t, FromIso(proof_data["expires_at"]))
    THEN [valid |-> FALSE, message |-> "Proof expired", proof |-> proof_data]
    ELSE IF "signature" \notin DOMAIN proof_data
    THEN [valid |-> FALSE, message |-> "Verification failed: 'signature'", proof |-> proof_data]
    ELSE LET signature == proof_data["signature"]
             popped == Pop(proof_data, "signature")
             expected_signature == _hmac_sign(key, JsonDumps(popped))
         IN IF ~CompareDigestOk(signature)
            THEN [valid |-> FALSE, message |-> "Verification failed: comparing strings with non-ASCII characters is not supported", proof |-> popped]
            ELSE IF ~compare_digest(signature, expected_signature)
            THEN [valid |-> FALSE, message |-> "Invalid signature", proof |-> popped]
            ELSE IF "age_verified" \notin DOMAIN popped
            THEN [valid |-> FALSE, message |-> "Verification failed: 'age_verified'", proof |-> popped]
            ELSE IF ~popped["age_verified"]
            THEN [valid |-> FALSE, message |-> "Age requirement not met", proof |-> popped]
            ELSE [valid |-> TRUE, message |-> "Proof verified successfully", proof |-> popped]

-----------------------------------------------------------------------------
InitWith(dates) ==
    /\ now = 0
    /\ today \in dates
    /\ secret_key = FirstKey
    /\ min_age = MIN_AGE
    /\ \E test_mode \in BOOLEAN : proof_expiry = ExpiryMinutes(test_mode)
    /\ proof = EmptyDict
    /\ edits = 0
    /\ issued = {}
    /\ verdicts = {}
    /\ last = [op |-> "init"]

Init == InitWith(StartDates)

(* app.py starts again: a new instance with test_mode=False and the next   *)
(* key from os.urandom                                                     *)
Restart ==
    /\ secret_key + 1 \in Keys
    /\ secret_key' = secret_key + 1
    /\ min_age' = MIN_AGE
    /\ proof_expiry' = ExpiryMinutes(FALSE)
    /\ last' = [op |-> "init"]
    /\ UNCHANGED <<now, today, proof, edits, issued, verdicts>>

GenerateWith(births, users, aliases, elapsed, cap) ==
    /\ Cardinality(issued) < cap
    /\ \E s \in births, u \in users, a \in aliases, d \in elapsed :
          LET r == generate_secure_age_proof(s, u, a, secret_key, min_age, proof_expiry,
                                             today, now, now + d)
          IN /\ (now % MinutesPerDay) + d <= MaxMinute
             /\ last' = [op |-> "generate", birth |-> s, user_id |-> u, today |-> today,
                         raised |-> r.raised, claim |-> r.claim]
             /\ IF r.raised
                THEN UNCHANGED <<now, proof, edits, issued, verdicts>>
                ELSE /\ now' = now + d
                     /\ proof' = r.claim
                     /\ edits' = 0
                     /\ verdicts' = {}
                     /\ issued' = issued \cup {[claim |-> r.claim, key |-> secret_key,
                                                age |-> r.age, ttl |-> proof_expiry]}
    /\ UNCHANGED <<today, secret_key, min_age, proof_expiry>>

(* the service: one subject, one alias, no time passing inside the call *)
Generate == GenerateWith(BirthDateStrs, {"user001"}, {RANDINT_LOW}, {0}, MaxIssued)

(* the call counts for the history of repeated calls when it is made       *)
(* while expires_at has not passed                                         *)
BeforeExpiry(p, t) ==
    /\ "expires_at" \in DOMAIN p
    /\ IsNaive(p["expires_at"])
    /\ t <= FromIso(p["expires_at"])

Verify ==
    /\ DOMAIN proof # {}
    /\ LET r == verify_proof(proof, secret_key, now)
       IN /\ proof' = r.proof
          /\ last' = [op |-> "verify", arg |-> proof, key |-> secret_key, now |-> now,
                      valid |-> r.valid, message |-> r.message]
          /\ verdicts' = IF BeforeExpiry(proof, now)
                         THEN verdicts \cup {<<r.valid, r.message>>}
                         ELSE verdicts
    /\ UNCHANGED <<now, today, secret_key, min_age, proof_expiry, edits, issued>>

(* what a holder of the claim can write into a field: the values the       *)
(* program itself produces, a few timestamps, tags it has seen             *)
TamperValues(f) ==
    CASE f = "alias" -> Aliases
      [] f = "user_id" -> UserIds
      [] f = "age_verified" -> BOOLEAN
      [] f = "min_age" -> {MIN_AGE, MIN_AGE - 1}
      [] f = "timestamp" -> {IsoFormat(0), IsoFormat(1)}
      [] f = "expires_at" -> {IsoFormat(0), IsoFormat(FarFuture), AwareIso(FarFuture), BadIso}
      [] f = "signature" -> {o.claim["signature"] : o \in issued}
                               \cup {GarbageSignature, NonAsciiSignature}

TamperSet ==
    /\ DOMAIN proof # {}
    /\ edits < MaxEdits
    /\ \E f \in Fields : \E v \in TamperValues(f) :
          /\ f \in DOMAIN proof => proof[f] # v
          /\ proof' = Put(proof, f, v)
    /\ edits' = edits + 1
    /\ verdicts' = {}
    /\ last' = [op |-> "tamper"]
    /\ UNCHANGED <<now, today, secret_key, min_age, proof_expiry, issued>>

TamperDel ==
    /\ edits < MaxEdits
    /\ \E f \in DOMAIN proof : proof' = Pop(proof, f)
    /\ edits' = edits + 1
    /\ verdicts' = {}
    /\ last' = [op |-> "tamper"]
    /\ UNCHANGED <<now, today, secret_key, min_age, proof_expiry, issued>>

(* the caller presents again a claim it was issued earlier *)
Present ==
    /\ \E o \in issued : o.claim # proof /\ proof' = o.claim
    /\ edits' = 0
    /\ verdicts' = {}
    /\ last' = [op |-> "present"]
    /\ UNCHANGED <<now, today, secret_key, min_age, proof_expiry, issued>>

AdvanceMinute ==
    /\ (now % MinutesPerDay) < MaxMinute
    /\ now' = now + 1
    /\ last' = [op |-> "clock"]
    /\ UNCHANGED <<today, secret_key, min_age, proof_expiry, proof, edits, issued, verdicts>>

AdvanceDay ==
    /\ now \div MinutesPerDay < MaxDays
    /\ now' = now + MinutesPerDay
    /\ today' = NextDay(today)
    /\ last' = [op |-> "clock"]
    /\ UNCHANGED <<secret_key, min_age, proof_expiry, proof, edits, issued, verdicts>>

Next ==
    \/ Restart
    \/ Generate
    \/ Verify
    \/ TamperSet
    \/ TamperDel
    \/ Present
    \/ AdvanceMinute
    \/ AdvanceDay

Spec == Init /\ [][Next]_vars

-----------------------------------------------------------------------------
(* issuance alone, over a range of dates, subjects and aliases, with the    *)
(* clock advancing inside the call: one issuance per run                   *)

MonthDays == {<<1, 1>>, <<2, 28>>, <<2, 29>>, <<3, 1>>, <<3, 2>>, <<6, 15>>, <<12, 31>>}

AgeDates == {d \in {<<y, md[1], md[2]>> : y \in {2018, 2019, 2020}, md \in MonthDays} : IsDate(d)}

AgeBirthDateStrs ==
    {<<y, md[1], md[2]>> : y \in {1999, 2000, 2001, 2002}, md \in MonthDays \cup {<<2, 30>>, <<13, 1>>}}

InitIssue == InitWith(AgeDates)

GenerateIssue == GenerateWith(AgeBirthDateStrs, UserIds, Aliases, Elapsed, 1)

NextIssue == GenerateIssue \/ AdvanceDay

SpecIssue == InitIssue /\ [][NextIssue]_vars

-----------------------------------------------------------------------------
(* Properties *)

Verified == "Proof verified successfully"
NotMet == "Age requirement not met"
InvalidSignature == "Invalid signature"
ProofExpired == "Proof expired"

MalformedReasons ==
    {"Verification failed: 'expires_at'", "Verification failed: 'signature'",
     "Verification failed: 'age_verified'", "Verification failed: Invalid isoformat string"}

Verifying == last.op = "verify"

Generating == last.op = "generate"

(* the claim verified is one that was issued under the verifier's key, as  *)
(* it was returned, and is verified while expires_at has not passed        *)
IssuedUnmodified(o) ==
    /\ o.claim = last.arg
    /\ o.key = last.key
    /\ BeforeExpiry(last.arg, last.now)

(* C1: round trip. A claim as generate_secure_age_proof returned it,       *)
(* verified under the same key at a time not after its expires_at, is      *)
(* verified exactly when the computed age reaches the threshold, and fails *)
(* with the age-requirement reason when it does not.                       *)
RoundTrip ==
    Verifying =>
        \A o \in issued :
            IssuedUnmodified(o) =>
                /\ last.valid <=> (o.age >= MIN_AGE)
                /\ last.valid => last.message = Verified
                /\ ~last.valid => last.message = NotMet

(* C1 witness: an issued claim is accepted at the very minute it expires *)
RoundTripWitness ==
    /\ Verifying
    /\ \E o \in issued : IssuedUnmodified(o) /\ o.age >= MIN_AGE
    /\ last.now = FromIso(last.arg["expires_at"])
    /\ last.valid

(* all seven fields, expires_at and signature of the kind issuance writes:  *)
(* a timestamp without offset, an ASCII string                             *)
WellFormed(p) ==
    /\ DOMAIN p = Fields
    /\ IsNaive(p["expires_at"])
    /\ CompareDigestOk(p["signature"])

TagOf(p, key) == _hmac_sign(key, JsonDumps(Pop(p, "signature")))

ChangedFields(p, o) == {f \in Fields \ {"signature"} : p[f] # o.claim[f]}

SingleFieldTamper(p) ==
    /\ DOMAIN p = Fields
    /\ \E o \in issued :
          /\ p["signature"] = o.claim["signature"]
          /\ Cardinality(ChangedFields(p, o)) = 1

(* C2 as stated: every single-field change yields (False, invalid          *)
(* signature).                                                             *)
TamperAlwaysInvalidSignature ==
    (Verifying /\ SingleFieldTamper(last.arg)) =>
        (~last.valid /\ last.message = InvalidSignature)

(* C2 as amended: every single-field change is rejected; the reason is     *)
(* invalid signature when the changed claim's expires_at is a timestamp    *)
(* without offset that has not passed, expired when it is one that has     *)
(* passed, and a verification failure when it does not parse or carries    *)
(* an offset.                                                              *)
TamperRejected ==
    (Verifying /\ SingleFieldTamper(last.arg)) =>
        /\ ~last.valid
        /\ last.message =
              (IF ~FromIsoOk(last.arg["expires_at"])
               THEN "Verification failed: Invalid isoformat string"
               ELSE IF ~IsNaive(last.arg["expires_at"])
               THEN "Verification failed: can't compare offset-naive and offset-aware datetimes"
               ELSE IF last.now > FromIso(last.arg["expires_at"])
               THEN ProofExpired
               ELSE InvalidSignature)

(* C2 witness: the flag of an ineligible claim was turned to true and the  *)
(* claim is rejected for its signature                                     *)
TamperRejectedWitness ==
    /\ Verifying
    /\ SingleFieldTamper(last.arg)
    /\ \E o \in issued :
          /\ last.arg["signature"] = o.claim["signature"]
          /\ ChangedFields(last.arg, o) = {"age_verified"}
    /\ last.arg["age_verified"]
    /\ last.message = InvalidSignature

(* C4: repeated calls of verify_proof on one record, the caller not        *)
(* touching it in between and every call made before expires_at, all       *)
(* return the same result.                                                 *)
Idempotent == Cardinality(verdicts) <= 1

(* C5: verify_proof leaves the record it was given as it was. *)
InputNotMutated == Verifying => proof = last.arg

Malformed(p) ==
    \/ Cardinality(Fields \ DOMAIN p) = 1
    \/ (DOMAIN p = Fields /\ ~FromIsoOk(p["expires_at"]))

(* C6: a claim missing one required field, or with an unparseable          *)
(* expires_at, is rejected with a reason that marks it malformed.          *)
MalformedRejected ==
    (Verifying /\ Malformed(last.arg)) =>
        (~last.valid /\ last.message \in MalformedReasons)

(* C7: issuance raises on a birth date that does not parse and on an empty *)
(* subject id, and otherwise returns a claim with all seven fields.        *)
IssuanceValidated ==
    Generating =>
        /\ (~StrptimeOk(last.birth) \/ last.user_id = "") => last.raised
        /\ ~last.raised => DOMAIN last.claim = Fields
        /\ last.raised => last.claim = EmptyDict

DateLeq(a, b) ==
    \/ a[1] < b[1]
    \/ a[1] = b[1] /\ a[2] < b[2]
    \/ a[1] = b[1] /\ a[2] = b[2] /\ a[3] <= b[3]

YearsBefore(d, n) == <<d[1] - n, d[2], d[3]>>

(* C8: age boundary. The flag of an issued claim is true exactly when the  *)
(* issuance date is on or after the threshold-th anniversary of the birth  *)
(* date; born exactly threshold years before today is eligible, born the   *)
(* day after that is not.                                                  *)
AgeBoundary ==
    (Generating /\ ~last.raised) =>
        LET b == last.birth
            t == last.today
            anniversary == <<b[1] + MIN_AGE, b[2], b[3]>>
            flag == last.claim["age_verified"]
        IN /\ flag <=> DateLeq(anniversary, t)
           /\ b = YearsBefore(t, MIN_AGE) => flag
           /\ (IsDate(YearsBefore(t, MIN_AGE)) /\ b = NextDay(YearsBefore(t, MIN_AGE))) => ~flag

(* C8 witness: a subject born on 29 February turns eighteen on 1 March of  *)
(* a year without a leap day                                               *)
AgeBoundaryWitness ==
    /\ Generating
    /\ ~last.raised
    /\ last.birth = <<2000, 2, 29>>
    /\ last.today = <<2018, 3, 1>>
    /\ last.claim["age_verified"]

(* C9: expires_at of every issued claim is its timestamp plus the ttl      *)
(* exactly.                                                                *)
ExpiryIsIssuedPlusTtl ==
    \A o \in issued :
        FromIso(o.claim["expires_at"]) = FromIso(o.claim["timestamp"]) + o.ttl

(* C10: soundness of acceptance. verify_proof returns valid = True only    *)
(* for a claim whose fields other than signature are those of a claim      *)
(* issued under the verifier's key, whose flag is true and whose           *)
(* expires_at has not passed.                                              *)
SoundAcceptance ==
    (Verifying /\ last.valid) =>
        /\ \E o \in issued :
              /\ o.key = last.key
              /\ Pop(o.claim, "signature") = Pop(last.arg, "signature")
        /\ "age_verified" \in DOMAIN last.arg
        /\ last.arg["age_verified"]
        /\ BeforeExpiry(last.arg, last.now)

(* C10 witness: after a restart a claim signed under the new key is        *)
(* accepted                                                                *)
SoundAcceptanceWitness ==
    /\ Verifying
    /\ last.valid
    /\ last.key # FirstKey
====
